---- MODULE Spec2Model ----
(***************************************************************************)
(* Verification model of the volumetric dataset synthesis engine:          *)
(*   utils/data.py        Randomizer, inside_box, random_center_box,       *)
(*                        random_in_interval, create_data_set              *)
(*   utils/segmentmap.py  get_spans, create_from_df                        *)
(* Random draws are dyadic rationals, held as numerators over Den.         *)
(***************************************************************************)
EXTENDS Integers, Sequences, FiniteSets, TLC

\* Python's None where an integer may stand (a seed, an absent value)
None == -1

\* ------------------------------------------------------------------------
\* Bounds of the model
\* ------------------------------------------------------------------------
\* number of bits of a draw: draws are k / 2^SobolBits
SobolBits == 3
\* largest n of a sample(n, d) call in the Randomizer harness
MaxN == 2
\* number of Randomizer calls in one run of the harness
MaxCalls == 3

RECURSIVE Pow2(_)
Pow2(k) == IF k <= 0 THEN 1 ELSE 2 * Pow2(k - 1)

Den == Pow2(SobolBits)

\* dimensions the program asks for: rr_sample(., 2), rr_sample(., 1), sample(1, 3)
Dims == {1, 2, 3}

\* ------------------------------------------------------------------------
\* sobol_seq.i4_sobol_generate(d, n, s), as called by Randomizer.rand
\* ------------------------------------------------------------------------
RECURSIVE Xor(_, _)
Xor(a, b) ==
  IF a = 0 THEN b
  ELSE IF b = 0 THEN a
  ELSE (((a % 2) + (b % 2)) % 2) + 2 * Xor(a \div 2, b \div 2)

\* i4_bit_lo0: 1-based position of the lowest zero bit
RECURSIVE BitLo0(_)
BitLo0(n) == IF n % 2 = 0 THEN 1 ELSE 1 + BitLo0(n \div 2)

\* direction numbers before scaling: dimension 1 is all ones, dimension 2
\* follows the polynomial x + 1, dimension 3 follows x^2 + x + 1
RECURSIVE DirNum(_, _)
DirNum(dim, j) ==
  IF dim = 1 THEN 1
  ELSE IF dim = 2
    THEN IF j = 1 THEN 1
         ELSE Xor(DirNum(2, j - 1), 2 * DirNum(2, j - 1))
    ELSE IF j <= 2 THEN 1
         ELSE Xor(Xor(DirNum(3, j - 2), 2 * DirNum(3, j - 1)), 4 * DirNum(3, j - 2))

DirScaled(dim, j) == DirNum(dim, j) * Pow2(SobolBits - j)

\* numerator of coordinate dim of the point of index s (index 0 is the origin)
RECURSIVE SobolCoord(_, _)
SobolCoord(s, dim) ==
  IF s = 0 THEN 0
  ELSE Xor(SobolCoord(s - 1, dim), DirScaled(dim, BitLo0(s - 1)))

\* n rows of d coordinates, the points of index s .. s + n - 1
SobolGenerate(d, n, s) ==
  [j \in 1..n |-> [k \in 1..d |-> SobolCoord(s + j - 1, k)]]

\* ------------------------------------------------------------------------
\* numpy's global generator, as used by Randomizer.rand and reset_f:
\* a deterministic state machine whose state a seed fixes
\* ------------------------------------------------------------------------
GenStates == 0..(Den - 1)

GenNext(g) == (5 * g + 3) % Den

RECURSIVE GenAdvance(_, _)
GenAdvance(g, k) == IF k = 0 THEN g ELSE GenAdvance(GenNext(g), k - 1)

\* np.random.seed(x)
GenSeed(x) == x % Den

\* np.random.uniform(size=(n, d)): n*d successive outputs, row by row
Uniform(n, d, g) ==
  [j \in 1..n |-> [k \in 1..d |-> GenAdvance(g, (j - 1) * d + (k - 1))]]

\* ------------------------------------------------------------------------
\* class Randomizer: a record [seed, counter, gen]; gen is the state of the
\* process-wide generator, which the constructor leaves as it finds it
\* ------------------------------------------------------------------------
NewRandomizer(seed, gen) == [seed |-> seed, counter |-> 0, gen |-> gen]

\* self.rand(n, d, s): the lambda chosen by __init__
Rand(R, n, d, s) ==
  IF R.seed = None
    THEN [out |-> SobolGenerate(d, n, s), R |-> R]
    ELSE [out |-> Uniform(n, d, R.gen),
          R |-> [R EXCEPT !.gen = GenAdvance(R.gen, n * d)]]

\* self.reset_f(self.seed) after self.counter = 0
Reset(R) ==
  IF R.seed = None
    THEN [R EXCEPT !.counter = 0]
    ELSE [R EXCEPT !.counter = 0, !.gen = GenSeed(R.seed)]

Sample(R, n, d) ==
  LET r == Rand(R, n, d, R.counter)
  IN  [out |-> r.out, R |-> [r.R EXCEPT !.counter = R.counter + n]]

\* mutant: rr_sample starts at the counter, as sample does
RrSampleStartAtCounter(R) == R.counter

\* rr_sample passes 0 as the start index
RrSampleStart(R) == 0

RrSample(R, n, d) == Rand(R, n, d, RrSampleStart(R))

ResetSample(R, n, d) ==
  LET R0 == Reset(R)
  IN  Rand(R0, n, d, R0.counter)

\* ------------------------------------------------------------------------
\* inside_box(points, min_values, max_values): points is a sequence of axes,
\* each a sequence of windows <<lower, upper>>
\* ------------------------------------------------------------------------
Lo(w) == w[1]
Hi(w) == w[2]
WinLen(w) == Hi(w) - Lo(w)

\* mutant: the window is pushed back to end at max, not at max - 1
ShiftBelowMaxToMax(total_length, mx) == <<mx - total_length, mx>>

\* the window a row of greater_max is replaced by
ShiftBelowMax(total_length, mx) == <<mx - total_length - 1, mx - 1>>

\* the window a row of less_min is replaced by
ShiftToMin(total_length, mn) == <<mn, mn + total_length>>

\* one pass of the loop body: axis W against [mn, mx)
ClampAxis(W, mn, mx) ==
  LET less_min == {j \in 1..Len(W) : Lo(W[j]) < mn \/ Hi(W[j]) < mn}
      W1 == IF less_min = {} THEN W
            ELSE [j \in 1..Len(W) |->
                    IF j \in less_min THEN ShiftToMin(WinLen(W[1]), mn) ELSE W[j]]
      greater_max == {j \in 1..Len(W1) : Lo(W1[j]) >= mx \/ Hi(W1[j]) >= mx}
  IN  IF greater_max = {} THEN W1
      ELSE [j \in 1..Len(W1) |->
              IF j \in greater_max THEN ShiftBelowMax(WinLen(W1[1]), mx) ELSE W1[j]]

InsideBox(points, min_values, max_values) ==
  [a \in 1..Len(points) |-> ClampAxis(points[a], min_values[a], max_values[a])]

\* ------------------------------------------------------------------------
\* random_center_box and random_in_interval. rdn is a block of draws, a
\* sequence of rows of numerators over Den; the result is a sequence of axes
\* ------------------------------------------------------------------------
\* .astype(np.int), and the store of a float into an integer array: the
\* fraction is dropped, towards zero
TruncDiv(n, d) == IF n >= 0 THEN n \div d ELSE -((-n) \div d)

Max2(a, b) == IF a >= b THEN a ELSE b
Min2(a, b) == IF a <= b THEN a ELSE b

\* int(total_length / 2) - precuation
Radius(total_length, precuation) == (total_length \div 2) - precuation

\* rdn * 2 * radius + center_point - int(total_length / 2) - radius
CenterBoxLower(r, total_length, center, precuation) ==
  LET radius == Radius(total_length, precuation)
  IN  TruncDiv(r * 2 * radius + (center - (total_length \div 2) - radius) * Den, Den)

random_center_box(rdn, total_length, center_point, precuation, min_values, max_values) ==
  LET coord == [a \in 1..Len(center_point) |->
                  [j \in 1..Len(rdn) |->
                     LET lo == CenterBoxLower(rdn[j][a], total_length,
                                              center_point[a], precuation)
                     IN  <<lo, lo + total_length>>]]
  IN  InsideBox(coord, min_values, max_values)

\* rdn * max(upper - lower - length, 0) + lower + length / 2
IntervalLower(r, interval, length) ==
  TruncDiv(2 * r * Max2(interval[2] - interval[1] - length, 0)
             + (2 * interval[1] + length) * Den, 2 * Den)

random_in_interval(rdn, interval, length) ==
  [a \in 1..Len(interval) |->
     [j \in 1..Len(rdn) |->
        LET lo == IntervalLower(rdn[j][a], interval[a], length)
        IN  <<lo, lo + length>>]]

\* ------------------------------------------------------------------------
\* array slicing a[start:stop] on an axis of n cells
\* ------------------------------------------------------------------------
SliceBound(b, n) == IF b < 0 THEN Max2(b + n, 0) ELSE Min2(b, n)

SliceCells(w, n) == {c \in 0..(n - 1) : SliceBound(Lo(w), n) <= c /\ c < SliceBound(Hi(w), n)}

SliceLen(w, n) == Max2(SliceBound(Hi(w), n) - SliceBound(Lo(w), n), 0)

\* a slice of len cells can be stored where want cells are expected
Broadcasts(len, want) == len = want \/ len = 1

\* ------------------------------------------------------------------------
\* create_data_set. A catalogue record is [x, y, z, l_band, u_band], the
\* pixel position of the source and of the two ends of its line; the cube
\* hi_data has shape <<NF, NX, NY>>
\* ------------------------------------------------------------------------
\* create_sourcemap: the voxels set to 1, as <<frequency, x, y>>
create_sourcemap(df) == {<<df[i].z, df[i].x, df[i].y>> : i \in 1..Len(df)}

\* ((upper_band - lower_band) / freq_band).astype(int), per record
PartSize(df, freq_band) ==
  [i \in 1..Len(df) |-> TruncDiv(df[i].u_band - df[i].l_band, freq_band)]

RECURSIVE SeqMin(_)
SeqMin(q) == IF Len(q) = 1 THEN q[1] ELSE Min2(q[1], SeqMin(Tail(q)))

RECURSIVE SeqMax(_)
SeqMax(q) == IF Len(q) = 1 THEN q[1] ELSE Max2(q[1], SeqMax(Tail(q)))

RECURSIVE SeqSum(_)
SeqSum(q) == IF q = <<>> THEN 0 ELSE q[1] + SeqSum(Tail(q))

\* the array freq_points_f after lines 18-21: entry k (from 1) is element
\* k - 1 of the array
FreqPointsF(part_size, freq_points_f) ==
  LET mn == SeqMin(part_size)
      mx == SeqMax(part_size)
  IN  IF freq_points_f = None
        THEN [k \in 1..(mx - mn + 1) |-> (mn + k - 1) * 2 + 1]
        ELSE [k \in 1..(mx - mn + 1) |-> freq_points_f]

\* np.bincount(part_size): entry k (from 1) counts the records of size k - 1
Bincount(part_size) ==
  [k \in 1..(SeqMax(part_size) + 1) |->
     Cardinality({i \in 1..Len(part_size) : part_size[i] = k - 1})]

\* np.bincount(part_size) * freq_points_f is defined: the lengths agree or
\* one of them is 1
ProductDefined(part_size, fpf) ==
  Len(Bincount(part_size)) = Len(fpf) \/ Len(fpf) = 1 \/ Len(Bincount(part_size)) = 1

\* total_freq_p = np.sum(np.bincount(part_size) * freq_points_f)
TotalFreqP(part_size, fpf) ==
  LET bc == Bincount(part_size)
      n == Max2(Len(bc), Len(fpf))
  IN  SeqSum([k \in 1..n |->
                (IF Len(bc) = 1 THEN bc[1] ELSE bc[k])
                  * (IF Len(fpf) = 1 THEN fpf[1] ELSE fpf[k])])

\* ------------------------------------------------------------------------
\* float64 arithmetic, as lines 26-27 use it. A natural number is a sequence
\* of bits, the most significant first and not 0; a float is [m, e], m a
\* natural of MantBits bits, with value m * 2^e. Every operation returns the
\* float nearest to the exact result, the one with an even m on a tie.
\* ------------------------------------------------------------------------
\* bits of the significand of a float64
MantBits == 53

Zeros(n) == [i \in 1..n |-> 0]

RECURSIVE Strip(_)
Strip(b) == IF b = <<>> \/ b[1] = 1 THEN b ELSE Strip(Tail(b))

RECURSIVE NatBits(_)
NatBits(k) == IF k = 0 THEN <<>> ELSE Append(NatBits(k \div 2), k % 2)

RECURSIVE BitsNat(_)
BitsNat(b) ==
  IF b = <<>> THEN 0 ELSE 2 * BitsNat(SubSeq(b, 1, Len(b) - 1)) + b[Len(b)]

\* a >= b: equal, or a has the larger bit where they first differ
GeqBits(a, b) ==
  IF Len(a) # Len(b) THEN Len(a) > Len(b)
  ELSE \/ a = b
       \/ \E i \in 1..Len(a) : a[i] > b[i] /\ SubSeq(a, 1, i - 1) = SubSeq(b, 1, i - 1)

PadTo(b, n) == Zeros(n - Len(b)) \o b

\* bits lo .. hi of a - b and the borrow they pass on, given the borrow
\* that reaches bit hi; the lower half of the range is taken first
RECURSIVE SubRange(_, _, _, _, _)
SubRange(a, b, lo, hi, borrow) ==
  IF lo = hi
    THEN LET d == a[lo] - b[lo] - borrow
         IN  [bits |-> <<(d + 2) % 2>>, borrow |-> IF d < 0 THEN 1 ELSE 0]
    ELSE LET mid == (lo + hi) \div 2
             low == SubRange(a, b, mid + 1, hi, borrow)
             high == IF low.borrow = 0 THEN SubRange(a, b, lo, mid, 0)
                                       ELSE SubRange(a, b, lo, mid, 1)
         IN  [bits |-> high.bits \o low.bits, borrow |-> high.borrow]

\* a - b, for a >= b > 0
SubBits(a, b) == Strip(SubRange(a, PadTo(b, Len(a)), 1, Len(a), 0).bits)

\* bits lo .. hi of a * n and the carry they pass on
RECURSIVE MulRange(_, _, _, _, _)
MulRange(a, n, lo, hi, carry) ==
  IF lo = hi
    THEN LET t == a[lo] * n + carry
         IN  [bits |-> <<t % 2>>, carry |-> t \div 2]
    ELSE LET mid == (lo + hi) \div 2
             low == MulRange(a, n, mid + 1, hi, carry)
             c == low.carry
             high == IF c = 0 THEN MulRange(a, n, lo, mid, 0)
                              ELSE MulRange(a, n, lo, mid, c)
         IN  [bits |-> high.bits \o low.bits, carry |-> high.carry]

\* a * n, for a > 0 and a small integer n
MulBits(a, n) ==
  LET r == MulRange(a, n, 1, Len(a), 0)
  IN  Strip(NatBits(r.carry) \o r.bits)

RECURSIVE IncBits(_)
IncBits(b) ==
  IF b = <<>> THEN <<1>>
  ELSE IF b[Len(b)] = 0 THEN [b EXCEPT ![Len(b)] = 1]
  ELSE Append(IncBits(SubSeq(b, 1, Len(b) - 1)), 0)

\* long division of a by b over bits lo .. hi of a, entered with the
\* remainder r: the quotient bits and the remainder left
RECURSIVE DivRange(_, _, _, _, _)
DivRange(a, b, lo, hi, r) ==
  IF lo = hi
    THEN LET r1 == Strip(Append(r, a[lo]))
         IN  IF GeqBits(r1, b) THEN [q |-> <<1>>, r |-> SubBits(r1, b)]
                               ELSE [q |-> <<0>>, r |-> r1]
    ELSE LET mid == (lo + hi) \div 2
             first == DivRange(a, b, lo, mid, r)
             rest == DivRange(a, b, mid + 1, hi, first.r)
         IN  [q |-> first.q \o rest.q, r |-> rest.r]

\* quotient q and remainder r of a by b, for a, b > 0
LongDiv(a, b) ==
  LET d == DivRange(a, b, 1, Len(a), <<>>)
  IN  [q |-> Strip(d.q), r |-> d.r]

\* the float nearest to n * 2^e, or to a value between that and
\* (n + 1) * 2^e when sticky
RoundFloat(n, e, sticky) ==
  IF Len(n) <= MantBits
    THEN [m |-> n \o Zeros(MantBits - Len(n)), e |-> e - (MantBits - Len(n))]
    ELSE LET keep == SubSeq(n, 1, MantBits)
             more == sticky \/ \E i \in (MantBits + 2)..Len(n) : n[i] = 1
             up == n[MantBits + 1] = 1 /\ (more \/ keep[MantBits] = 1)
             m1 == IF up THEN IncBits(keep) ELSE keep
             e1 == e + (Len(n) - MantBits)
         IN  IF Len(m1) > MantBits
               THEN [m |-> SubSeq(m1, 1, MantBits), e |-> e1 + 1]
               ELSE [m |-> m1, e |-> e1]

\* the float nearest to (a / b) * 2^e: the quotient is taken to two bits
\* more than the significand holds
DivFloat(a, b, e) ==
  LET s == MantBits + 3 + Len(b) - Len(a)
      d == LongDiv(a \o Zeros(s), b)
  IN  RoundFloat(d.q, e - s, d.r # <<>>)

\* the float a literal num/den denotes, 0 < num < den
FloatOfRatio(num, den) == DivFloat(NatBits(num), NatBits(den), 0)

\* 1 - x, for a float 0 < x < 1
OneMinus(x) == RoundFloat(SubBits(<<1>> \o Zeros(-x.e), x.m), x.e, FALSE)

\* x * n, for an integer n > 0
FloatTimesInt(x, n) == RoundFloat(MulBits(x.m, n), x.e, FALSE)

\* x / y
FloatOver(x, y) == DivFloat(x.m, y.m, x.e - y.e)

\* int(x), for x below 2^MantBits
FloatToInt(x) == BitsNat(SubSeq(x.m, 1, MantBits + x.e))

\* int(((1 - prob_galaxy) * n_sources) / (prob_galaxy * freq_empty)), for
\* prob_galaxy written as the decimal prob[1] / prob[2]
NCubes(prob, n_sources, freq_empty) ==
  LET p == FloatOfRatio(prob[1], prob[2])
  IN  FloatToInt(FloatOver(FloatTimesInt(OneMinus(p), n_sources),
                           FloatTimesInt(p, freq_empty)))

\* lines 17-29
Quota(df, cfg) ==
  LET part_size == PartSize(df, cfg.freq_band)
      fpf == FreqPointsF(part_size, cfg.freq_points_f)
      df_size == Len(df)
      total_freq_p == TotalFreqP(part_size, fpf)
      n_sources == total_freq_p * cfg.spatial_points
      freq_empty == total_freq_p \div df_size
      n_cubes == NCubes(cfg.prob_galaxy, n_sources, freq_empty)
      n_empty == n_cubes * freq_empty
  IN  [part_size |-> part_size, freq_points_f |-> fpf, total_freq_p |-> total_freq_p,
       n_sources |-> n_sources, freq_empty |-> freq_empty, n_cubes |-> n_cubes,
       n_empty |-> n_empty, n_points |-> n_sources + n_empty]

\* data['class'][i], i counted from 0
ClassOf(i, n_sources) == IF i < n_sources THEN 1 ELSE 0

\* lines 52-53 succeed: the slices of hi_data and of the source map can be
\* stored in an image of freq_band x side_length x side_length
WriteFits(fw, xw, yw, cfg, shape) ==
  /\ Broadcasts(SliceLen(fw, shape[1]), cfg.freq_band)
  /\ Broadcasts(SliceLen(xw, shape[2]), cfg.side_length)
  /\ Broadcasts(SliceLen(yw, shape[3]), cfg.side_length)

\* the windows of record i: lines 46-49, with the Randomizer they leave
SourceWindows(R, df, i, q, cfg, shape) ==
  LET rs == RrSample(R, cfg.spatial_points, 2)
      xy == random_center_box(rs.out, cfg.side_length, <<df[i].x, df[i].y>>,
                              cfg.precuation, <<0, 0>>, <<shape[2], shape[3]>>)
      n_freq == q.freq_points_f[q.part_size[i] + 1]
      rf == RrSample(rs.R, n_freq, 1)
      freq == random_in_interval(rf.out, <<<<df[i].l_band, df[i].u_band>>>>,
                                 cfg.freq_band)[1]
  IN  [x |-> xy[1], y |-> xy[2], freq |-> freq, R |-> rf.R]

\* the (j, k) pairs of lines 50-51 in the order of the loops
SourcePairs(n_spatial, n_freq) ==
  [m \in 1..(n_spatial * n_freq) |-> <<((m - 1) \div n_freq) + 1, ((m - 1) % n_freq) + 1>>]

\* the samples lines 52-57 write for record i until a store fails
RECURSIVE WriteSource(_, _, _, _, _, _, _)
WriteSource(w, pairs, m, i, cluster, cfg, shape) ==
  IF m > Len(pairs) THEN [samples |-> <<>>, ok |-> TRUE]
  ELSE LET j == pairs[m][1]
           k == pairs[m][2]
       IN  IF ~WriteFits(w.freq[k], w.x[j], w.y[j], cfg, shape)
             THEN [samples |-> <<>>, ok |-> FALSE]
             ELSE LET rest == WriteSource(w, pairs, m + 1, i, cluster, cfg, shape)
                  IN  [samples |->
                         <<[pos |-> <<w.freq[k], w.x[j], w.y[j]>>,
                            cluster |-> cluster, rec |-> i]>> \o rest.samples,
                       ok |-> rest.ok]

\* one candidate of the empty loop: lines 62-68, with the Randomizer they leave
EmptyWindows(R, q, cfg, shape) ==
  LET rs == Sample(R, 1, 3)
      coordinate == [a \in 1..3 |-> TruncDiv(rs.out[1][a] * shape[a], Den)]
      l_band == coordinate[1]
      u_band == l_band + q.freq_empty * cfg.freq_band
      rf == RrSample(rs.R, q.freq_empty, 1)
      freq0 == random_in_interval(rf.out, <<<<l_band, u_band>>>>, cfg.freq_band)[1]
      freq == InsideBox(<<freq0>>, <<0>>, <<shape[1]>>)[1]
      xy == random_center_box(<<<<Den \div 2, Den \div 2>>>>, cfg.side_length,
                              <<coordinate[2], coordinate[3]>>, 0,
                              <<0, 0>>, <<shape[2], shape[3]>>)
  IN  [x |-> xy[1][1], y |-> xy[2][1], freq |-> freq, R |-> rf.R]

\* mutant: the sum runs over the first frequency window only
FreqHullFirstWindow(freq) == freq[1]

\* np.min(freq) : np.max(freq)
FreqHull(freq) ==
  <<SeqMin([k \in 1..(2 * Len(freq)) |-> freq[(k + 1) \div 2][IF k % 2 = 1 THEN 1 ELSE 2]]),
    SeqMax([k \in 1..(2 * Len(freq)) |-> freq[(k + 1) \div 2][IF k % 2 = 1 THEN 1 ELSE 2]])>>

\* the region line 69 sums the source map over
SumRegion(w, shape) ==
  SliceCells(FreqHull(w.freq), shape[1]) \X SliceCells(w.x, shape[2]) \X SliceCells(w.y, shape[3])

\* sum_map of line 69
SumMap(sourcemap, w, shape) == Cardinality(sourcemap \cap SumRegion(w, shape))

\* lines 71-75: the samples of an accepted candidate
WriteEmpty(w, q, cluster) ==
  [k \in 1..q.freq_empty |-> [pos |-> <<w.freq[k], w.x, w.y>>, cluster |-> cluster, rec |-> 0]]

\* ------------------------------------------------------------------------
\* utils/segmentmap.py. A catalogue row is [x, y, z, maj2, min2, nch, pa]:
\* pixel position, twice the major and minor radius in pixels, the rounded
\* channel depth and the position angle in degrees.
\* ------------------------------------------------------------------------
\* dense_cube: side of the square cross-section
SquareSide(row) ==
  LET side == IF row.maj2 >= row.min2 THEN row.maj2 ELSE row.min2
      odd == IF side % 2 = 0 THEN side + 1 ELSE side
  IN  IF odd < 3 THEN 3 ELSE odd

\* dense_cube: draw.ellipse(side/2, side/2, major, minor): the cells whose
\* distance to the centre, in units of the radii, is below 1
BaseEllipse(row) ==
  LET side == SquareSide(row)
  IN  {c \in (0..(side - 1)) \X (0..(side - 1)) :
         (2 * c[1] - side) * (2 * c[1] - side) * row.min2 * row.min2
           + (2 * c[2] - side) * (2 * c[2] - side) * row.maj2 * row.maj2
         < row.maj2 * row.maj2 * row.min2 * row.min2}

\* dense_cube: transform.rotate(cross_section, pa), for a quarter turn
CrossSection(row) ==
  LET side == SquareSide(row)
      base == BaseEllipse(row)
  IN  IF row.pa = 0 THEN base
      ELSE {c \in (0..(side - 1)) \X (0..(side - 1)) :
              <<c[2], side - 1 - c[1]>> \in base}

\* dense_cube: only odd numbers of channels
StampChannels(row) == IF row.nch % 2 = 0 THEN row.nch + 1 ELSE row.nch

SmallShape(row) == <<SquareSide(row), SquareSide(row), StampChannels(row)>>

\* the non-zero cells of the dense small cube
DenseCube(row) ==
  {c \in (0..(SquareSide(row) - 1)) \X (0..(SquareSide(row) - 1))
           \X (0..(StampChannels(row) - 1)) : <<c[1], c[2]>> \in CrossSection(row)}

ImageCoords(row) == <<row.x, row.y, row.z>>

\* get_spans, one axis: (dim_span_lower, dim_span_upper + 1)
DimSpan(p, full_length, small_length) ==
  LET half == small_length \div 2
      dim_span_lower == IF p - half < 0 THEN p ELSE half
      dim_span_upper == IF p + half > full_length THEN full_length - p ELSE half
  IN  <<dim_span_lower, dim_span_upper + 1>>

get_spans(full_cube_shape, small_cube_shape, image_coords) ==
  [a \in 1..3 |-> DimSpan(image_coords[a], full_cube_shape[a], small_cube_shape[a])]

\* create_from_df: centers
Centers(row) == [a \in 1..3 |-> SmallShape(row)[a] \div 2]

\* create_from_df: slice(c - s[0], c + s[1]) on one axis, as <<start, stop>>
SliceAt(c, span) == <<c - span[1], c + span[2]>>

\* the row is skipped as too small
Skipped(row, min_axis_pixels) == row.min2 < min_axis_pixels

\* the destination slice runs past the end of the cube on some axis
PastEnd(row, shape) ==
  LET spans == get_spans(shape, SmallShape(row), ImageCoords(row))
  IN  \E a \in 1..3 : SliceAt(ImageCoords(row)[a], spans[a])[2] > shape[a]

\* the cells of the cube the assignment covers, and those it sets non-zero:
\* cell v of the cube takes the value of cell v - start + crop_start of the
\* stamp (a zero of the stamp clears the cell)
Covered(row, shape) ==
  LET spans == get_spans(shape, SmallShape(row), ImageCoords(row))
      dst == [a \in 1..3 |-> SliceAt(ImageCoords(row)[a], spans[a])]
  IN  {v \in (0..(shape[1] - 1)) \X (0..(shape[2] - 1)) \X (0..(shape[3] - 1)) :
         \A a \in 1..3 : dst[a][1] <= v[a] /\ v[a] < dst[a][2]}

StampAt(row, shape, v) ==
  LET spans == get_spans(shape, SmallShape(row), ImageCoords(row))
      c == Centers(row)
  IN  [a \in 1..3 |->
         v[a] - SliceAt(ImageCoords(row)[a], spans[a])[1] + SliceAt(c[a], spans[a])[1]]

SetNonZero(row, shape) ==
  {v \in Covered(row, shape) :
     <<StampAt(row, shape, v)[1], StampAt(row, shape, v)[2], StampAt(row, shape, v)[3]>>
       \in DenseCube(row)}

VARIABLES
  \* Randomizer harness: two runs given the same seed and the same calls
  runA, runB, outA, outB, hist, rrLog,
  \* inside_box harness: the arguments of one call and what it returned
  boxIn, boxMin, boxMax, boxOut,
  \* create_from_df: the cube, the rows read so far and the loop's position
  segCube, segOcc, segLast, segN, segMinAxis, segPc,
  \* create_data_set: arguments, quota, loop positions, output, Randomizer
  dCfg, dDf, dPc, dQ, dI, dCounter, dCluster, dData, dRand, dRejected

randVars == <<runA, runB, outA, outB, hist, rrLog>>
boxVars == <<boxIn, boxMin, boxMax, boxOut>>

segVars == <<segCube, segOcc, segLast, segN, segMinAxis, segPc>>

dataVars == <<dCfg, dDf, dPc, dQ, dI, dCounter, dCluster, dData, dRand, dRejected>>

vars == <<randVars, boxVars, segVars, dataVars>>

\* what each component leaves alone
notRand == <<boxVars, segVars, dataVars>>
notBox == <<randVars, segVars, dataVars>>
notSeg == <<randVars, boxVars, dataVars>>
notData == <<randVars, boxVars, segVars>>

\* ------------------------------------------------------------------------
\* Randomizer harness: run A and run B are two processes; each constructs
\* Randomizer(seed) with the generator in the state the process happens to
\* have, then both receive the same calls
\* ------------------------------------------------------------------------
Seeds == {None, 0, 5}

Calls == (1..MaxN) \X Dims

NoBlock == <<>>

RandIdle ==
  /\ runA = NewRandomizer(None, 0)
  /\ runB = NewRandomizer(None, 0)
  /\ outA = NoBlock
  /\ outB = NoBlock
  /\ hist = [calls |-> 0, ops |-> {}, last |-> "init"]
  /\ rrLog = [c \in Calls |-> <<>>]

RandInit ==
  /\ \E s \in Seeds, gA, gB \in GenStates :
       /\ runA = NewRandomizer(s, gA)
       /\ runB = NewRandomizer(s, gB)
  /\ outA = NoBlock
  /\ outB = NoBlock
  /\ hist = [calls |-> 0, ops |-> {}, last |-> "init"]
  /\ rrLog = [c \in Calls |-> <<>>]

Called(op) ==
  hist' = [calls |-> hist.calls + 1, ops |-> hist.ops \cup {op}, last |-> op]

DoSample(n, d) ==
  /\ hist.calls < MaxCalls
  /\ runA.counter + n <= Den
  /\ LET a == Sample(runA, n, d)
         b == Sample(runB, n, d)
     IN  /\ runA' = a.R
         /\ runB' = b.R
         /\ outA' = a.out
         /\ outB' = b.out
  /\ Called("sample")
  /\ UNCHANGED rrLog
  /\ UNCHANGED notRand

DoRrSample(n, d) ==
  /\ hist.calls < MaxCalls
  /\ LET a == RrSample(runA, n, d)
         b == RrSample(runB, n, d)
     IN  /\ runA' = a.R
         /\ runB' = b.R
         /\ outA' = a.out
         /\ outB' = b.out
         /\ rrLog' = [rrLog EXCEPT ![<<n, d>>] = Append(@, a.out)]
  /\ Called("rr_sample")
  /\ UNCHANGED notRand

DoResetSample(n, d) ==
  /\ hist.calls < MaxCalls
  /\ LET a == ResetSample(runA, n, d)
         b == ResetSample(runB, n, d)
     IN  /\ runA' = a.R
         /\ runB' = b.R
         /\ outA' = a.out
         /\ outB' = b.out
  /\ Called("reset_sample")
  /\ UNCHANGED rrLog
  /\ UNCHANGED notRand

DoReset ==
  /\ hist.calls < MaxCalls
  /\ runA' = Reset(runA)
  /\ runB' = Reset(runB)
  /\ Called("reset")
  /\ UNCHANGED <<outA, outB, rrLog>>
  /\ UNCHANGED notRand

RandNext ==
  \/ \E c \in Calls : DoSample(c[1], c[2])
  \/ \E c \in Calls : DoRrSample(c[1], c[2])
  \/ \E c \in Calls : DoResetSample(c[1], c[2])
  \/ DoReset

\* ------------------------------------------------------------------------
\* inside_box harness: one call on one axis of up to MaxWin windows
\* ------------------------------------------------------------------------
\* number of windows on the axis
MaxWin == 2
\* longest window
MaxLen == 3
\* the axis: lower bounds are drawn from -2 .. BoxSpan, max from BoxSpan-1 .. BoxSpan
BoxSpan == 4

Windows == {<<l, l + n>> : l \in (-2)..BoxSpan, n \in 1..MaxLen}

WindowLists == UNION {[1..k -> Windows] : k \in 1..MaxWin}

BoxIdle ==
  /\ boxIn = <<>>
  /\ boxMin = 0
  /\ boxMax = 0
  /\ boxOut = <<>>

BoxInit ==
  /\ boxIn \in WindowLists
  /\ boxMin \in {0, 1}
  /\ boxMax \in {BoxSpan - 1, BoxSpan}
  /\ boxOut = <<>>

CallInsideBox ==
  /\ boxOut = <<>>
  /\ boxOut' = InsideBox(<<boxIn>>, <<boxMin>>, <<boxMax>>)[1]
  /\ UNCHANGED <<boxIn, boxMin, boxMax>>
  /\ UNCHANGED notBox

BoxNext == CallInsideBox

\* ------------------------------------------------------------------------
\* create_from_df: one step per catalogue row, then COO(cube)
\* ------------------------------------------------------------------------
\* rows in the catalogue
MaxRows == 2
\* header NAXIS1, NAXIS2, NAXIS3 of the modelled cube
SegNX == 3
SegNY == 3
SegNZ == 2

SegShape == <<SegNX, SegNY, SegNZ>>

\* twice the radii of the modelled sources: the minor radius is at most the
\* major radius
RowRadii == {<<2, 1>>, <<2, 2>>, <<4, 2>>}

Rows ==
  {[x |-> x, y |-> y, z |-> z, maj2 |-> r[1], min2 |-> r[2], nch |-> n, pa |-> a] :
     x \in 0..(SegNX - 1), y \in 0..(SegNY - 1), z \in 0..(SegNZ - 1),
     r \in RowRadii, n \in {1, 2}, a \in {0, 90}}

NoRow == [x |-> 0, y |-> 0, z |-> 0, maj2 |-> 0, min2 |-> 0, nch |-> 0, pa |-> 0]

\* what the loop body does with each row, computed once
RowEffect ==
  [row \in Rows |->
     [covered |-> Covered(row, SegShape),
      nonzero |-> SetNonZero(row, SegShape),
      pastEnd |-> PastEnd(row, SegShape)]]

SegIdle ==
  /\ segCube = {}
  /\ segOcc = {}
  /\ segLast = NoRow
  /\ segN = 0
  /\ segMinAxis = 0
  /\ segPc = "idle"

SegInit ==
  /\ segCube = {}
  /\ segOcc = {}
  /\ segLast = NoRow
  /\ segN = 0
  /\ segMinAxis \in {0, 2}
  /\ segPc = "rows"

\* segOcc: the cells some row so far has set non-zero (the footprints of the
\* clipped stamps of the rows that were not skipped)
Processed(row) ==
  /\ segLast' = row
  /\ segN' = segN + 1
  /\ segOcc' = IF Skipped(row, segMinAxis) \/ segPc' = "error" THEN segOcc
               ELSE segOcc \cup RowEffect[row].nonzero

\* the loop body of create_from_df on the cube (the set of its non-zero
\* cells): the assignment clears what it covers and sets the stamp's cells
WriteRow(cube, row) ==
  IF Skipped(row, segMinAxis) THEN cube
  ELSE (cube \ RowEffect[row].covered) \cup RowEffect[row].nonzero

\* the assignment stays inside the cube, or the row is skipped
SegRow(row) ==
  /\ segPc = "rows"
  /\ segN < MaxRows
  /\ Skipped(row, segMinAxis) \/ ~RowEffect[row].pastEnd
  /\ segCube' = WriteRow(segCube, row)
  /\ segPc' = segPc
  /\ Processed(row)
  /\ UNCHANGED segMinAxis
  /\ UNCHANGED notSeg

\* the destination slice is longer than the cube: the sparse array either
\* cuts the slice at the cube's end and writes what fits, or raises
SegRowPastEnd(row) ==
  /\ segPc = "rows"
  /\ segN < MaxRows
  /\ ~Skipped(row, segMinAxis) /\ RowEffect[row].pastEnd
  /\ \/ segCube' = WriteRow(segCube, row) /\ segPc' = segPc
     \/ segCube' = segCube /\ segPc' = "error"
  /\ Processed(row)
  /\ UNCHANGED segMinAxis
  /\ UNCHANGED notSeg

SegReturn ==
  /\ segPc = "rows"
  /\ segN > 0
  /\ segPc' = "done"
  /\ UNCHANGED <<segCube, segOcc, segLast, segN, segMinAxis>>
  /\ UNCHANGED notSeg

SegNext ==
  \/ \E row \in Rows : SegRow(row)
  \/ \E row \in Rows : SegRowPastEnd(row)
  \/ SegReturn

\* ------------------------------------------------------------------------
\* create_data_set: one step for the quota, one per catalogue record, one
\* per candidate of the empty loop, one for the return
\* ------------------------------------------------------------------------
\* hi_data.shape is <<DataNF, DataNSide, DataNSide>>
DataNF == 5
DataNSide == 4
\* records in the catalogue
MaxRecords == 2
\* half-width of a line, in channels
MaxHalfWidth == 2

DataShape == <<DataNF, DataNSide, DataNSide>>

\* the modelled sources lie on the diagonal x = y of the spatial plane; the
\* line of a source spans the same number of channels on both sides of its
\* centre (freq_boundary) and lies in the cube
Records ==
  LET inCube == {t \in (0..(DataNSide - 1)) \X (0..(DataNF - 1)) \X (0..MaxHalfWidth) :
                   t[2] - t[3] >= 0 /\ t[2] + t[3] <= DataNF - 1}
  IN  {[x |-> t[1], y |-> t[1], z |-> t[2], l_band |-> t[2] - t[3], u_band |-> t[2] + t[3]] :
         t \in inCube}

Catalogues == UNION {[1..n -> Records] : n \in 1..MaxRecords}

\* states the generator may be in when create_data_set is called
GenAtCall == {2, 7}

\* patches smaller than the cube on every axis
Configs ==
  [prob_galaxy : {<<1, 2>>},
   side_length : {2},
   precuation : {0, 1},
   freq_band : {2},
   spatial_points : {2},
   freq_points_f : {None, 2},
   seed : {None, 5}]

NoQuota ==
  [part_size |-> <<>>, freq_points_f |-> <<>>, total_freq_p |-> 0, n_sources |-> 0,
   freq_empty |-> 0, n_cubes |-> 0, n_empty |-> 0, n_points |-> 0]

NoConfig ==
  [prob_galaxy |-> <<1, 2>>, side_length |-> 0, precuation |-> 0, freq_band |-> 0,
   spatial_points |-> 0, freq_points_f |-> None, seed |-> None]

DataIdle ==
  /\ dCfg = NoConfig
  /\ dDf = <<>>
  /\ dPc = "idle"
  /\ dQ = NoQuota
  /\ dI = 0
  /\ dCounter = 0
  /\ dCluster = 0
  /\ dData = <<>>
  /\ dRand = NewRandomizer(None, 0)
  /\ dRejected = 0

\* the call: the generator is in whatever state the process left it in
DataInit ==
  /\ dCfg \in Configs
  /\ dDf \in Catalogues
  /\ dPc = "quota"
  /\ dQ = NoQuota
  /\ dI = 0
  /\ dCounter = 0
  /\ dCluster = 0
  /\ dData = <<>>
  /\ \E g \in GenAtCall : dRand = NewRandomizer(dCfg.seed, IF dCfg.seed = None THEN 0 ELSE g)
  /\ dRejected = 0

\* lines 17-36
DataQuota ==
  /\ dPc = "quota"
  /\ ProductDefined(PartSize(dDf, dCfg.freq_band),
                    FreqPointsF(PartSize(dDf, dCfg.freq_band), dCfg.freq_points_f))
  /\ dQ' = Quota(dDf, dCfg)
  /\ dPc' = "sources"
  /\ UNCHANGED <<dCfg, dDf, dI, dCounter, dCluster, dData, dRand, dRejected>>
  /\ UNCHANGED notData

\* line 24 raises: the two arrays cannot be multiplied
DataQuotaRaises ==
  /\ dPc = "quota"
  /\ ~ProductDefined(PartSize(dDf, dCfg.freq_band),
                     FreqPointsF(PartSize(dDf, dCfg.freq_band), dCfg.freq_points_f))
  /\ dPc' = "error"
  /\ UNCHANGED <<dCfg, dDf, dQ, dI, dCounter, dCluster, dData, dRand, dRejected>>
  /\ UNCHANGED notData

\* freq_points_f[part_size[i]] exists
IndexDefined(q, i) == q.part_size[i] + 1 <= Len(q.freq_points_f)

SourceResult(i) ==
  LET w == SourceWindows(dRand, dDf, i, dQ, dCfg, DataShape)
      pairs == SourcePairs(dCfg.spatial_points, Len(w.freq))
  IN  [w |-> w, res |-> WriteSource(w, pairs, 1, i, dCluster, dCfg, DataShape)]

\* lines 41-58 for record dI + 1
DataSource ==
  /\ dPc = "sources"
  /\ dI < Len(dDf)
  /\ IndexDefined(dQ, dI + 1)
  /\ LET r == SourceResult(dI + 1)
     IN  /\ r.res.ok
         /\ dData' = dData \o r.res.samples
         /\ dCounter' = dCounter + Len(r.res.samples)
         /\ dRand' = r.w.R
  /\ dCluster' = dCluster + 1
  /\ dI' = dI + 1
  /\ dPc' = IF dI + 1 = Len(dDf) THEN "empty" ELSE "sources"
  /\ UNCHANGED <<dCfg, dDf, dQ, dRejected>>
  /\ UNCHANGED notData

\* line 48 raises (no such entry of freq_points_f) or line 52 raises (the
\* slice of the cube has not the shape of an image)
DataSourceRaises ==
  /\ dPc = "sources"
  /\ dI < Len(dDf)
  /\ \/ /\ ~IndexDefined(dQ, dI + 1)
        /\ dRand' = RrSample(dRand, dCfg.spatial_points, 2).R
        /\ UNCHANGED <<dData, dCounter>>
     \/ /\ IndexDefined(dQ, dI + 1)
        /\ LET r == SourceResult(dI + 1)
           IN  /\ ~r.res.ok
               /\ dData' = dData \o r.res.samples
               /\ dCounter' = dCounter + Len(r.res.samples)
               /\ dRand' = r.w.R
  /\ dPc' = "error"
  /\ UNCHANGED <<dCfg, dDf, dQ, dI, dCluster, dRejected>>
  /\ UNCHANGED notData

\* the candidate the empty loop draws next
Candidate == EmptyWindows(dRand, dQ, dCfg, DataShape)

\* lines 61-76, sum_map == 0
DataEmptyAccept ==
  /\ dPc = "empty"
  /\ dCounter < dQ.n_points
  /\ dRand.counter < Den
  /\ LET c == Candidate
     IN  /\ SumMap(create_sourcemap(dDf), c, DataShape) = 0
         /\ dData' = dData \o WriteEmpty(c, dQ, dCluster)
         /\ dRand' = c.R
  /\ dCounter' = dCounter + dQ.freq_empty
  /\ dCluster' = dCluster + 1
  /\ UNCHANGED <<dCfg, dDf, dPc, dQ, dI, dRejected>>
  /\ UNCHANGED notData

\* lines 61-70, sum_map # 0
DataEmptyReject ==
  /\ dPc = "empty"
  /\ dCounter < dQ.n_points
  /\ dRand.counter < Den
  /\ LET c == Candidate
     IN  /\ SumMap(create_sourcemap(dDf), c, DataShape) # 0
         /\ dRand' = c.R
  /\ dRejected' = dRejected + 1
  /\ UNCHANGED <<dCfg, dDf, dPc, dQ, dI, dCounter, dCluster, dData>>
  /\ UNCHANGED notData

\* mutant: the loop is left whatever the counter is
DataReturnEarly ==
  /\ dPc = "empty"
  /\ dPc' = "done"
  /\ UNCHANGED <<dCfg, dDf, dQ, dI, dCounter, dCluster, dData, dRand, dRejected>>
  /\ UNCHANGED notData

\* line 77
DataReturn ==
  /\ dPc = "empty"
  /\ dCounter >= dQ.n_points
  /\ dPc' = "done"
  /\ UNCHANGED <<dCfg, dDf, dQ, dI, dCounter, dCluster, dData, dRand, dRejected>>
  /\ UNCHANGED notData

DataNext ==
  \/ DataQuota
  \/ DataQuotaRaises
  \/ DataSource
  \/ DataSourceRaises
  \/ DataEmptyAccept
  \/ DataEmptyReject
  \/ DataReturn

\* ------------------------------------------------------------------------
\* The quota of create_data_set (lines 17-29) over target probabilities:
\* catalogues that differ in the widths of their lines only
\* ------------------------------------------------------------------------
\* prob_galaxy is k / ProbSteps
ProbSteps == 10

QuotaRecords == {r \in Records : r.x = 0 /\ r.l_band = 0}

QuotaCatalogues == UNION {[1..n -> QuotaRecords] : n \in 1..MaxRecords}

QuotaConfigs ==
  [prob_galaxy : {<<k, ProbSteps>> : k \in 1..(ProbSteps - 1)},
   side_length : {2},
   precuation : {0},
   freq_band : {2},
   spatial_points : {1, 2},
   freq_points_f : {None, 2},
   seed : {None}]

QuotaInit ==
  /\ dCfg \in QuotaConfigs
  /\ dDf \in QuotaCatalogues
  /\ dPc = "quota"
  /\ dQ = NoQuota
  /\ dI = 0
  /\ dCounter = 0
  /\ dCluster = 0
  /\ dData = <<>>
  /\ dRand = NewRandomizer(None, 0)
  /\ dRejected = 0

QuotaNext ==
  \/ DataQuota
  \/ DataQuotaRaises

\* ------------------------------------------------------------------------
\* create_data_set to its end, for catalogues of sources in one corner of the
\* spatial plane and for one catalogue no candidate of the empty loop avoids
\* ------------------------------------------------------------------------
LiveRecords == {r \in Records : r.x = 0}

\* a catalogue of thin lines at the four central pixels, in channels 1 and 3:
\* every window of side_length 2 holds a central pixel, and every span of two
\* channels holds channel 1 or channel 3
DenseCatalogue ==
  [i \in 1..8 |->
     LET x == 1 + ((i - 1) \div 4)
         y == 1 + (((i - 1) \div 2) % 2)
         z == 1 + 2 * ((i - 1) % 2)
     IN  [x |-> x, y |-> y, z |-> z, l_band |-> z, u_band |-> z]]

LiveCatalogues ==
  UNION {[1..n -> LiveRecords] : n \in 1..MaxRecords} \cup {DenseCatalogue}

LiveInit ==
  /\ dCfg \in Configs
  /\ dDf \in LiveCatalogues
  /\ dPc = "quota"
  /\ dQ = NoQuota
  /\ dI = 0
  /\ dCounter = 0
  /\ dCluster = 0
  /\ dData = <<>>
  /\ \E g \in GenAtCall : dRand = NewRandomizer(dCfg.seed, IF dCfg.seed = None THEN 0 ELSE g)
  /\ dRejected = 0

\* ------------------------------------------------------------------------
\* Specifications
\* ------------------------------------------------------------------------
RandSpecInit == RandInit /\ BoxIdle /\ SegIdle /\ DataIdle
SpecRand == RandSpecInit /\ [][RandNext]_vars

BoxSpecInit == BoxInit /\ RandIdle /\ SegIdle /\ DataIdle
SpecBox == BoxSpecInit /\ [][BoxNext]_vars

SegSpecInit == SegInit /\ RandIdle /\ BoxIdle /\ DataIdle
SpecSeg == SegSpecInit /\ [][SegNext]_vars

DataSpecInit == DataInit /\ RandIdle /\ BoxIdle /\ SegIdle
SpecData == DataSpecInit /\ [][DataNext]_vars

\* an iteration of the empty loop, told by its effect on the Randomizer:
\* line 62 advances the counter in every iteration, whether the candidate is
\* accepted or rejected, and no other step does
EmptyLoopIteration ==
  /\ dPc = "empty"
  /\ dCounter < dQ.n_points
  /\ dRand.counter < Den
  /\ \E g \in GenStates : dRand' = [dRand EXCEPT !.counter = @ + 1, !.gen = g]

\* the interpreter runs the single thread of create_data_set on: an iteration
\* of the loop that can be taken is taken, and so is the return
LiveSpecInit == LiveInit /\ RandIdle /\ BoxIdle /\ SegIdle
SpecDataLive ==
  LiveSpecInit /\ [][DataNext]_vars /\ WF_dRand(EmptyLoopIteration) /\ WF_vars(DataReturn)

QuotaSpecInit == QuotaInit /\ RandIdle /\ BoxIdle /\ SegIdle
SpecQuota == QuotaSpecInit /\ [][QuotaNext]_vars

\* ------------------------------------------------------------------------
\* Claims about the Randomizer
\* ------------------------------------------------------------------------
OnlyOps(S) == hist.calls > 0 /\ hist.ops \subseteq S

\* C1: two runs that construct Randomizer(seed) with the same seed and issue
\* the same sample(n, d) calls obtain identical outputs, whatever state the
\* generator was in before construction; without a seed the same holds of
\* sample and rr_sample.
C1_Reproducible ==
  /\ (runA.seed # None /\ OnlyOps({"sample"})) => outA = outB
  /\ (runA.seed = None /\ OnlyOps({"sample", "rr_sample"})) => outA = outB

AllSame(q) == \A a, b \in 1..Len(q) : q[a] = q[b]

\* C2 as stated: in both modes rr_sample(n, d) returns the same block every
\* time it is called with the same (n, d), whatever calls were made before.
C2_RrSampleIdempotent == \A c \in Calls : AllSame(rrLog[c])

\* C2 amended: without a seed rr_sample(n, d) returns points 0 .. n-1 of the
\* sequence every time, whatever calls were made before (with a seed it
\* returns the generator's next n*d draws, which differ from call to call).
C2_RrSampleQuasiRestart ==
  runA.seed = None =>
    \A c \in Calls : \A k \in 1..Len(rrLog[c]) :
       rrLog[c][k] = SobolGenerate(c[2], c[1], 0)

\* rr_sample called twice for one (n, d) after sample has advanced the counter
C2_Witness ==
  /\ runA.seed = None
  /\ runA.counter > 0
  /\ hist.last = "rr_sample"
  /\ \E c \in Calls : Len(rrLog[c]) >= 2 /\ c[1] >= 2

\* ------------------------------------------------------------------------
\* Claims about inside_box
\* ------------------------------------------------------------------------
Returned == boxOut # <<>>

Fits(w, mn, mx) == mn <= Lo(w) /\ Hi(w) < mx

ClampedRight(j) ==
  /\ WinLen(boxOut[j]) = WinLen(boxIn[j])
  /\ boxMin <= Lo(boxOut[j]) /\ Lo(boxOut[j]) < boxMax
  /\ boxMin <= Hi(boxOut[j]) /\ Hi(boxOut[j]) < boxMax
  /\ Fits(boxIn[j], boxMin, boxMax) => boxOut[j] = boxIn[j]

\* C3 as stated: for every window the output has the input's length, both
\* output bounds lie within [min, max), and a window that fits is unchanged.
C3_ClampAnyInput == Returned => \A j \in 1..Len(boxIn) : ClampedRight(j)

\* the windows of the axis share one length, and that length fits the box
\* with the one pixel the clamp keeps free below max
UniformAndFitting ==
  /\ \A j \in 1..Len(boxIn) : WinLen(boxIn[j]) = WinLen(boxIn[1])
  /\ WinLen(boxIn[1]) < boxMax - boxMin

\* C3 amended: when all windows of an axis have one length L and
\* L < max - min, every output window has length L, both its bounds lie
\* within [min, max), and a window that fits is returned unchanged; a window
\* that fits is returned unchanged whatever the other windows are.
C3_ClampUniformWindows ==
  Returned =>
    /\ UniformAndFitting => \A j \in 1..Len(boxIn) : ClampedRight(j)
    /\ \A j \in 1..Len(boxIn) :
         Fits(boxIn[j], boxMin, boxMax) => boxOut[j] = boxIn[j]

\* one window was moved up to min and another down below max
C3_Witness ==
  /\ Returned
  /\ UniformAndFitting
  /\ \E j, k \in 1..Len(boxIn) :
       /\ Lo(boxIn[j]) < boxMin /\ boxOut[j] # boxIn[j]
       /\ Hi(boxIn[k]) >= boxMax /\ boxOut[k] # boxIn[k]

SpanOk(p, full_length, small_length) ==
  LET span == DimSpan(p, full_length, small_length)
      c == small_length \div 2
      half == small_length \div 2
      dst == SliceAt(p, span)
      crop == SliceAt(c, span)
      toEdgeLow == p
      toEdgeHigh == full_length - 1 - p
  IN  /\ 0 <= dst[1] /\ dst[2] <= full_length
      /\ 0 <= crop[1] /\ crop[2] <= small_length
      /\ dst[2] - dst[1] = crop[2] - crop[1]
      /\ p - dst[1] = c - crop[1]
      /\ span[1] = IF half < toEdgeLow THEN half ELSE toEdgeLow
      /\ span[2] - 1 = IF half < toEdgeHigh THEN half ELSE toEdgeHigh

\* C9: for every row inside the cube, on every axis, the destination range
\* [p - lower, p + upper + 1) lies within [0, axis length), has the length of
\* the cropped stamp range, which lies within the stamp, maps the stamp centre
\* to p, and each span is the smaller of the stamp half-extent and the
\* distance from p to the cube edge.
C9_SpansClipToCube ==
  (segN > 0 /\ ~Skipped(segLast, segMinAxis)) =>
     \A a \in 1..3 : SpanOk(ImageCoords(segLast)[a], SegShape[a], SmallShape(segLast)[a])

\* ------------------------------------------------------------------------
\* Claims about create_data_set
\* ------------------------------------------------------------------------
InCube(w, size) == 0 <= Lo(w) /\ Lo(w) < Hi(w) /\ Hi(w) <= size

\* C4: every window recorded in data['position'], of a positive or of a
\* negative sample, lies within the cube on its axis and has its fixed
\* length: freq_band on the frequency axis, side_length on x and on y.
C4_WindowsInCube ==
  \A s \in 1..Len(dData) :
    /\ InCube(dData[s].pos[1], DataShape[1]) /\ WinLen(dData[s].pos[1]) = dCfg.freq_band
    /\ InCube(dData[s].pos[2], DataShape[2]) /\ WinLen(dData[s].pos[2]) = dCfg.side_length
    /\ InCube(dData[s].pos[3], DataShape[3]) /\ WinLen(dData[s].pos[3]) = dCfg.side_length

\* the voxels of the source map inside the windows of a sample
SourcesIn(pos) ==
  create_sourcemap(dDf)
    \cap (SliceCells(pos[1], DataShape[1]) \X SliceCells(pos[2], DataShape[2])
            \X SliceCells(pos[3], DataShape[3]))

C7_ClassBalance ==
  dPc = "sources" =>
    LET num == dCfg.prob_galaxy[1]
        den == dCfg.prob_galaxy[2]
    IN  /\ dQ.n_sources * den >= num * (dQ.n_sources + dQ.n_empty)
        /\ (den - num) * dQ.n_sources - num * dQ.n_empty < num * dQ.freq_empty

\* samples written from record i
FromRecord(i) == {s \in 1..Len(dData) : dData[s].rec = i}

\* freq_points_f of bucket b as the caller means it
PointsOfBucket(b) == IF dCfg.freq_points_f = None THEN 2 * b + 1 ELSE dCfg.freq_points_f

\* C8: once the sources loop has ended it has written n_sources samples,
\* spatial_points * freq_points_f[b] for a record of bucket b (2 * b + 1
\* frequency windows when freq_points_f is not supplied), n_sources being the
\* sum of these; class[i] = 1 exactly for the samples written from records;
\* the empty loop never passes n_points and ends with the counter there.
C8_SourcesLoopFillsQuota ==
  /\ dPc \in {"empty", "done", "error"} =>
       /\ \A i \in 1..Len(dDf) :
            Cardinality(FromRecord(i))
              = dCfg.spatial_points * PointsOfBucket(PartSize(dDf, dCfg.freq_band)[i])
       /\ Cardinality({s \in 1..Len(dData) : dData[s].rec # 0}) = dQ.n_sources
  /\ dPc \in {"empty", "done"} =>
       /\ \A s \in 1..Len(dData) : ClassOf(s - 1, dQ.n_sources) = 1 <=> dData[s].rec # 0
       /\ dCounter <= dQ.n_points
  /\ dPc = "done" => dCounter = dQ.n_points /\ Len(dData) = dQ.n_points

\* C10: the windows of every sample written from a record contain the
\* pixel of that record on all three axes.
C10_SampleContainsSource ==
  \A s \in 1..Len(dData) :
    dData[s].rec # 0 =>
      LET r == dDf[dData[s].rec]
      IN  /\ Lo(dData[s].pos[1]) <= r.z /\ r.z < Hi(dData[s].pos[1])
          /\ Lo(dData[s].pos[2]) <= r.x /\ r.x < Hi(dData[s].pos[2])
          /\ Lo(dData[s].pos[3]) <= r.y /\ r.y < Hi(dData[s].pos[3])

\* the empty loop is running: line 61 finds counter < n_points
Running == dPc = "empty" /\ dCounter < dQ.n_points

\* the candidate the loop draws next overlaps a voxel of the source map
Overlaps == SumMap(create_sourcemap(dDf), Candidate, DataShape) # 0

\* a candidate free of source voxels is drawn
FreeDrawn == Running /\ dRand.counter < Den /\ ~Overlaps

\* accepted draws so far: each record and each accepted draw takes a cluster id
Accepted == dCluster - Len(dDf)

====
